---- MODULE Spec2Model ----
(***************************************************************************)
(* Credential pool (GeminiKeyManager), its retry executor and the job      *)
(* pipeline (process_video_task / process_video_for_clips) of the          *)
(* clip generator backend.                                                 *)
(*                                                                         *)
(* Spec, SpecSeq: execute_with_retry by two callers, by one caller.        *)
(* SpecPool:      the methods of the pool called one at a time.            *)
(* SpecClassify:  is_rotatable_error on messages.                          *)
(* SpecLock:      execute_with_retry with the lock made visible.           *)
(* SpecJob:       one run of process_video_task.                           *)
(* SpecRank:      one call of process_video_for_clips, ranking to clips.   *)
(* SpecLive:      the pool with time going on and health being polled.     *)
(***************************************************************************)
EXTENDS Integers, Sequences, FiniteSets, TLC

\* ---------------------------------------------------------------- bounds
MaxKeys == 3
MaxRetriesArg == 2
MaxCalls == 2
MaxFailures == 2
MaxTicks == 1
MaxClips == 3
MaxPoolFailures == 5
MaxPoolTicks == 2
MaxCands == 2
MaxRankClips == 2
MaxLiveFailures == 2

\* ------------------------------------------------------ program constants
RATE_LIMIT_COOLDOWN == 60
QUOTA_EXHAUSTED_COOLDOWN == 600
INVALID_KEY_COOLDOWN == 86400

\* Python's None, for a string field and for a timestamp field
None == "None"
NoTime == -1
NoClient == -1

Threads == {"t1", "t2"}

\* ------------------------------------------------------------- messages
\* The messages the operation can raise
Errors ==
  {"429 rate limit", "429 Invalid request", "Quota check invalid", "401 invalid API key"}

\* The messages is_rotatable_error is asked about: those above and messages
\* that spell a pattern with a space, with an underscore or in capitals
Messages ==
  Errors \cup {"Resource exhausted", "RESOURCE_EXHAUSTED", "rate_limit_exceeded",
               "Too Many Requests", "500 internal error"}

NoHealthyKeys == "No healthy Gemini API keys available"
AllKeysExhausted == "All Gemini keys exhausted"

\* str(error): the text of a message, character by character
Str(e) ==
  CASE e = "429 rate limit" -> <<"4", "2", "9", " ", "r", "a", "t", "e", " ", "l", "i", "m", "i", "t">>
    [] e = "429 Invalid request" -> <<"4", "2", "9", " ", "I", "n", "v", "a", "l", "i", "d", " ", "r", "e", "q", "u", "e", "s", "t">>
    [] e = "Quota check invalid" -> <<"Q", "u", "o", "t", "a", " ", "c", "h", "e", "c", "k", " ", "i", "n", "v", "a", "l", "i", "d">>
    [] e = "401 invalid API key" -> <<"4", "0", "1", " ", "i", "n", "v", "a", "l", "i", "d", " ", "A", "P", "I", " ", "k", "e", "y">>
    [] e = "Resource exhausted" -> <<"R", "e", "s", "o", "u", "r", "c", "e", " ", "e", "x", "h", "a", "u", "s", "t", "e", "d">>
    [] e = "RESOURCE_EXHAUSTED" -> <<"R", "E", "S", "O", "U", "R", "C", "E", "_", "E", "X", "H", "A", "U", "S", "T", "E", "D">>
    [] e = "rate_limit_exceeded" -> <<"r", "a", "t", "e", "_", "l", "i", "m", "i", "t", "_", "e", "x", "c", "e", "e", "d", "e", "d">>
    [] e = "Too Many Requests" -> <<"T", "o", "o", " ", "M", "a", "n", "y", " ", "R", "e", "q", "u", "e", "s", "t", "s">>
    [] e = "500 internal error" -> <<"5", "0", "0", " ", "i", "n", "t", "e", "r", "n", "a", "l", " ", "e", "r", "r", "o", "r">>

UpperChars ==
  <<"A", "B", "C", "D", "E", "F", "G", "H", "I", "J", "K", "L", "M", "N", "O", "P", "Q", "R", "S", "T", "U", "V", "W", "X", "Y", "Z">>

LowerChars ==
  <<"a", "b", "c", "d", "e", "f", "g", "h", "i", "j", "k", "l", "m", "n", "o", "p", "q", "r", "s", "t", "u", "v", "w", "x", "y", "z">>

\* str.lower() on one character and on a text
LowerChar(c) ==
  IF \E i \in 1..Len(UpperChars) : UpperChars[i] = c
    THEN LowerChars[CHOOSE i \in 1..Len(UpperChars) : UpperChars[i] = c]
    ELSE c

Lower(s) == [i \in 1..Len(s) |-> LowerChar(s[i])]

\* Python's `p in s` on texts
Contains(s, p) ==
  \E i \in 1..(Len(s) - Len(p) + 1) : SubSeq(s, i, i + Len(p) - 1) = p

ROTATABLE_ERROR_PATTERNS ==
  { <<"r", "e", "s", "o", "u", "r", "c", "e", "_", "e", "x", "h", "a", "u", "s", "t", "e", "d">>,
    <<"r", "a", "t", "e", "_", "l", "i", "m", "i", "t", "_", "e", "x", "c", "e", "e", "d", "e", "d">>,
    <<"q", "u", "o", "t", "a">>,
    <<"r", "a", "t", "e", " ", "l", "i", "m", "i", "t">>,
    <<"t", "o", "o", " ", "m", "a", "n", "y", " ", "r", "e", "q", "u", "e", "s", "t", "s">>,
    <<"4", "2", "9">> }

Txt429 == <<"4", "2", "9">>
Txt401 == <<"4", "0", "1">>
TxtQuota == <<"q", "u", "o", "t", "a">>
TxtInvalid == <<"i", "n", "v", "a", "l", "i", "d">>

\* is_rotatable_error that compares the message as it is, without lower()
is_rotatable_error_case_sensitive(e) ==
  LET error_str == Str(e)
  IN  \/ Contains(error_str, Txt429)
      \/ \E pattern \in ROTATABLE_ERROR_PATTERNS : Contains(error_str, pattern)

is_rotatable_error(e) ==
  LET error_str == Lower(Str(e))
  IN  \/ Contains(error_str, Txt429)
      \/ \E pattern \in ROTATABLE_ERROR_PATTERNS : Contains(error_str, pattern)

\* CooldownFor with the two tests in the other order
CooldownFor_invalid_first(e) ==
  LET error_message == Str(e)
  IN  IF Contains(error_message, Txt401) \/ Contains(Lower(error_message), TxtInvalid)
        THEN INVALID_KEY_COOLDOWN
        ELSE IF Contains(Lower(error_message), TxtQuota)
          THEN QUOTA_EXHAUSTED_COOLDOWN
          ELSE RATE_LIMIT_COOLDOWN

\* The cooldown rotate_on_error picks for an error message
CooldownFor(e) ==
  LET error_message == Str(e)
  IN  IF Contains(Lower(error_message), TxtQuota)
        THEN QUOTA_EXHAUSTED_COOLDOWN
        ELSE IF Contains(error_message, Txt401) \/ Contains(Lower(error_message), TxtInvalid)
          THEN INVALID_KEY_COOLDOWN
          ELSE RATE_LIMIT_COOLDOWN

\* ----------------------------------------------------------------- state
VARIABLES
  keys,           \* _keys: 0-based list of KeyState
  current_index,  \* _current_index
  now,            \* time.time()
  th,             \* per thread: the frame of its execute_with_retry call
  ncalls,         \* execute_with_retry calls started
  nfail,          \* operation failures so far
  nticks,         \* clock advances so far
  job,            \* the job record: status, progress, error
  jpc,            \* where process_video_task stands
  req,            \* the VideoProcessRequest and the storage configuration
  rank_raised,    \* what the ranking-model call raised, None if nothing
  segments,       \* number of segments selected for extraction
  clips,          \* generated_clips
  uploaded,       \* clips handled by the upload loop
  lock,           \* _lock: who holds it, None when it is free
  ret,            \* what the last direct call of a pool method returned
  payload,        \* the serialized request handed to the queue, {} if none
  rpc,            \* where process_video_for_clips stands
  num_clips,      \* its num_clips argument
  clip_duration,  \* its clip_duration argument
  content,        \* the ranking model's response, parsed
  seg_list,       \* its local `segments`
  energy_windows, \* what get_top_energy_windows gave, <<>> by default
  scene_timestamps, \* what detect_scenes gave, <<>> by default
  audio_hype_events, \* what detect_audio_hype_events gave, <<>> by default
  det,            \* per detector: absent, raises, ok, None before it is tried
  generated_clips, \* the clip records appended so far
  result          \* the dict process_video_for_clips returns

poolVars == <<keys, current_index, now, th, ncalls, nfail, nticks>>

jobVars == <<job, jpc, req, rank_raised, segments, clips, uploaded>>

\* the lock and the return value of a direct call
auxVars == <<lock, ret>>

\* what the queued path carries
\* the state of one process_video_for_clips call
rankVars == <<rpc, num_clips, clip_duration, content, seg_list, energy_windows,
              scene_timestamps, audio_hype_events, det, generated_clips, result>>

extVars == <<payload, rankVars>>

vars == <<keys, current_index, now, th, ncalls, nfail, nticks,
          job, jpc, req, rank_raised, segments, clips, uploaded, lock, ret,
          payload, rpc, num_clips, clip_duration, content, seg_list,
          energy_windows, scene_timestamps, audio_hype_events, det,
          generated_clips, result>>

NumKeys == Len(keys)
Idx == 0..(NumKeys - 1)

\* KeyState(key, client) as constructed by _load_keys
KeyState ==
  [is_healthy |-> TRUE, cooldown_until |-> NoTime, last_error |-> None, error_count |-> 0]

\* keys is a sequence (1-based in TLA+); key(ks, i) is Python's ks[i]
key(ks, i) == ks[i + 1]

SetKey(ks, i, k) == [ks EXCEPT ![i + 1] = k]

HealthySet(ks) == {i \in 0..(Len(ks) - 1) : key(ks, i).is_healthy}

\* No pool method has been called directly yet
NoCall ==
  [op |-> None, error |-> None, start_index |-> 0, client |-> NoClient, result |-> FALSE]

IdleFrame ==
  [pc |-> "idle", max_retries |-> 0, attempt |-> 0, client |-> NoClient,
   last_error |-> None, log |-> <<>>, raised |-> None, result |-> NoClient]

\* ------------------------------------------------------ pool operations
\* _check_cooldowns that clears an expired cooldown and leaves the flag
check_cooldowns_keeps_flag(ks, t) ==
  [j \in 1..Len(ks) |->
     IF ks[j].cooldown_until # NoTime /\ ks[j].cooldown_until # 0 /\ t > ks[j].cooldown_until
       THEN [ks[j] EXCEPT !.cooldown_until = NoTime]
       ELSE ks[j]]

\* _check_cooldowns that clears a cooldown at its end, not after it
check_cooldowns_at_end(ks, t) ==
  [j \in 1..Len(ks) |->
     IF ks[j].cooldown_until # NoTime /\ ks[j].cooldown_until # 0 /\ t >= ks[j].cooldown_until
       THEN [ks[j] EXCEPT !.cooldown_until = NoTime, !.is_healthy = TRUE]
       ELSE ks[j]]

check_cooldowns(ks, t) ==
  [j \in 1..Len(ks) |->
     IF ks[j].cooldown_until # NoTime /\ ks[j].cooldown_until # 0 /\ t > ks[j].cooldown_until
       THEN [ks[j] EXCEPT !.cooldown_until = NoTime, !.is_healthy = TRUE]
       ELSE ks[j]]

\* _get_healthy_key that returns the current key without looking at its health
get_healthy_key_sticky(ks, cur) ==
  IF Len(ks) > 0 THEN cur ELSE NoClient

\* _get_healthy_key that looks for a healthy key from the current index on,
\* going round, instead of from the head of the list
get_healthy_key_cyclic(ks, cur) ==
  IF Len(ks) > 0 /\ key(ks, cur).is_healthy
    THEN cur
    ELSE IF HealthySet(ks) # {}
      THEN (cur + (CHOOSE k \in 1..Len(ks) :
                     /\ (cur + k) % Len(ks) \in HealthySet(ks)
                     /\ \A m \in 1..(k - 1) : (cur + m) % Len(ks) \notin HealthySet(ks)))
             % Len(ks)
      ELSE NoClient

\* Index of the key _get_healthy_key returns, NoClient for None
get_healthy_key(ks, cur) ==
  IF Len(ks) > 0 /\ key(ks, cur).is_healthy
    THEN cur
    ELSE IF HealthySet(ks) # {}
      THEN CHOOSE i \in HealthySet(ks) : \A j \in HealthySet(ks) : i <= j
      ELSE NoClient

\* get_current_client: the pool after the call and the client returned
get_current_client(ks, cur, t) ==
  LET ks2 == check_cooldowns(ks, t)
      healthy_key == get_healthy_key(ks2, cur)
  IN  [keys |-> ks2,
       current_index |-> IF healthy_key = NoClient THEN cur ELSE healthy_key,
       client |-> healthy_key]

RECURSIVE RotateLoop(_, _, _, _)
RotateLoop(ks, idx, attempts, start_index) ==
  IF attempts < Len(ks)
    THEN LET nxt == (idx + 1) % Len(ks)
         IN  IF key(ks, nxt).is_healthy
               THEN [current_index |-> nxt, rotated |-> TRUE]
               ELSE RotateLoop(ks, nxt, attempts + 1, start_index)
    ELSE [current_index |-> start_index, rotated |-> FALSE]

\* _rotate_to_next_healthy_key that leaves the index where the scan began to
\* move it, one past the start, when it finds no healthy key
rotate_to_next_healthy_key_unrestored(ks, cur, t) ==
  LET ks2 == check_cooldowns(ks, t)
      r == RotateLoop(ks2, cur, 0, cur)
  IN  [keys |-> ks2,
       current_index |-> IF r.rotated THEN r.current_index ELSE (cur + 1) % Len(ks),
       rotated |-> r.rotated]

\* _rotate_to_next_healthy_key that advances the index without the modulo and
\* stops at the end of the list
rotate_to_next_healthy_key_no_wrap(ks, cur, t) ==
  LET ks2 == check_cooldowns(ks, t)
      above == {i \in HealthySet(ks2) : i > cur}
  IN  IF above # {}
        THEN [keys |-> ks2,
              current_index |-> CHOOSE i \in above : \A j \in above : i <= j,
              rotated |-> TRUE]
        ELSE [keys |-> ks2, current_index |-> Len(ks), rotated |-> FALSE]

rotate_to_next_healthy_key(ks, cur, t) ==
  LET ks2 == check_cooldowns(ks, t)
      r == RotateLoop(ks2, cur, 0, cur)
  IN  [keys |-> ks2, current_index |-> r.current_index, rotated |-> r.rotated]

\* rotate_on_error without the penalty: it only rotates
rotate_on_error_unmarked(ks, cur, e, t) ==
  IF Len(ks) = 0
    THEN [keys |-> ks, current_index |-> cur, rotated |-> FALSE]
    ELSE rotate_to_next_healthy_key(ks, cur, t)

rotate_on_error(ks, cur, e, t) ==
  IF Len(ks) = 0
    THEN [keys |-> ks, current_index |-> cur, rotated |-> FALSE]
    ELSE IF ~key(ks, cur).is_healthy
      THEN rotate_to_next_healthy_key(ks, cur, t)
      ELSE LET current_key == key(ks, cur)
               marked == [current_key EXCEPT
                            !.is_healthy = FALSE,
                            !.cooldown_until = t + CooldownFor(e),
                            !.last_error = e,
                            !.error_count = current_key.error_count + 1]
           IN  rotate_to_next_healthy_key(SetKey(ks, cur, marked), cur, t)

\* get_key_status at time t: the pool after the call and the list returned
get_key_status(ks, t) ==
  LET ks2 == check_cooldowns(ks, t)
  IN  [keys |-> ks2,
       status |->
         [j \in 1..Len(ks2) |->
            [index |-> j,
             is_healthy |-> ks2[j].is_healthy,
             in_cooldown |-> ks2[j].cooldown_until # NoTime /\ ks2[j].cooldown_until > t,
             cooldown_remaining |->
               IF ks2[j].cooldown_until # NoTime /\ ks2[j].cooldown_until # 0
                 THEN (IF ks2[j].cooldown_until - t > 0 THEN ks2[j].cooldown_until - t ELSE 0)
                 ELSE NoTime,
             last_error |-> ks2[j].last_error,
             error_count |-> ks2[j].error_count]]]

\* ------------------------------------------------------------------ jobs
Sources == {"upload", "youtube", "kick", "url"}

NoRequest == [video_source |-> None, num_clips |-> 0, storage_enabled |-> FALSE]

\* process_request.model_dump(): the request as a dict, here its items
model_dump(r) ==
  {<<"video_source", r.video_source>>, <<"num_clips", r.num_clips>>}

\* the value a dict has for a field, or the field's default
Field(p, f, default) ==
  IF \E x \in p : x[1] = f THEN (CHOOSE x \in p : x[1] = f)[2] ELSE default

\* a reconstruction that takes num_clips from the field's default
VideoProcessRequest_defaults(p) ==
  [video_source |-> Field(p, "video_source", None), num_clips |-> 5]

\* VideoProcessRequest(**request_payload): video_source is required,
\* num_clips defaults to 5
VideoProcessRequest(p) ==
  [video_source |-> Field(p, "video_source", None),
   num_clips |-> Field(p, "num_clips", 5)]

\* validate_source: the sources the request model accepts
validate_source(v) == v \in {"upload", "youtube", "url", "kick"}

\* The messages the ranking-model call can raise
RankErrors == {"429 rate limit", "500 internal error"}

\* progress of the i-th (0-based) of n clips: 65 + int((i / n) * 30)
clip_progress(i, n) == 65 + ((i * 30) \div n)

\* no detector tried yet, nothing returned yet
NoDetection == [energy |-> None, scenes |-> None, hype |-> None]

NoResult == [success |-> FALSE, total_clips |-> -1, error |-> None]

\* ----------------------------------------------------------------- init
Init ==
  /\ \E n \in 0..MaxKeys : keys = [j \in 1..n |-> KeyState]
  /\ current_index = 0
  /\ now = 0
  /\ th = [t \in Threads |-> IdleFrame]
  /\ ncalls = 0
  /\ nfail = 0
  /\ nticks = 0
  /\ job = [status |-> "queued", progress |-> 0, error |-> None]
  /\ jpc = "queued"
  /\ req = NoRequest
  /\ rank_raised = None
  /\ segments = 0
  /\ clips = <<>>
  /\ uploaded = 0
  /\ lock = None
  /\ ret = NoCall
  /\ payload = {}
  /\ rpc = "idle"
  /\ num_clips = 0
  /\ clip_duration = 0
  /\ content = <<>>
  /\ seg_list = <<>>
  /\ energy_windows = <<>>
  /\ scene_timestamps = <<>>
  /\ audio_hype_events = <<>>
  /\ det = NoDetection
  /\ generated_clips = <<>>
  /\ result = NoResult

\* -------------------------------------------------------------- actions
\* A caller enters execute_with_retry(operation, max_retries)
Call(t) ==
  /\ th[t].pc = "idle"
  /\ ncalls < MaxCalls
  /\ \E mr \in 0..MaxRetriesArg :
       th' = [th EXCEPT ![t] = [IdleFrame EXCEPT !.pc = "loop", !.max_retries = mr]]
  /\ ncalls' = ncalls + 1
  /\ UNCHANGED <<keys, current_index, now, nfail, nticks>>
  /\ UNCHANGED jobVars
  /\ UNCHANGED auxVars
  /\ UNCHANGED extVars

\* Attempt with a loop that runs once too often
Attempt_one_more(t) ==
  /\ th[t].pc = "loop"
  /\ th[t].attempt <= th[t].max_retries
  /\ LET g == get_current_client(keys, current_index, now)
     IN  /\ keys' = g.keys
         /\ current_index' = g.current_index
         /\ IF g.client = NoClient
              THEN th' = [th EXCEPT ![t].pc = "raised", ![t].raised = NoHealthyKeys]
              ELSE th' = [th EXCEPT ![t].pc = "op", ![t].client = g.client]
  /\ UNCHANGED <<now, ncalls, nfail, nticks>>
  /\ UNCHANGED jobVars
  /\ UNCHANGED auxVars
  /\ UNCHANGED extVars

\* Head of the loop body: client = self.get_current_client()
Attempt(t) ==
  /\ th[t].pc = "loop"
  /\ th[t].attempt < th[t].max_retries
  /\ LET g == get_current_client(keys, current_index, now)
     IN  /\ keys' = g.keys
         /\ current_index' = g.current_index
         /\ IF g.client = NoClient
              THEN th' = [th EXCEPT ![t].pc = "raised", ![t].raised = NoHealthyKeys]
              ELSE th' = [th EXCEPT ![t].pc = "op", ![t].client = g.client]
  /\ UNCHANGED <<now, ncalls, nfail, nticks>>
  /\ UNCHANGED jobVars
  /\ UNCHANGED auxVars
  /\ UNCHANGED extVars

\* return operation(client): the operation succeeds
OperationReturns(t) ==
  /\ th[t].pc = "op"
  /\ th' = [th EXCEPT ![t].pc = "returned", ![t].result = th[t].client]
  /\ UNCHANGED <<keys, current_index, now, ncalls, nfail, nticks>>
  /\ UNCHANGED jobVars
  /\ UNCHANGED auxVars
  /\ UNCHANGED extVars

\* OperationRaises that hands every error to rotate_on_error
OperationRaises_rotate_all(t) ==
  /\ th[t].pc = "op"
  /\ nfail < MaxFailures
  /\ \E error \in Errors :
       LET entry == [client |-> th[t].client, error |-> error, at |-> now,
                     healthy |-> HealthySet(keys)]
       IN  th' = [th EXCEPT ![t].pc = "rotate", ![t].last_error = error,
                            ![t].log = Append(th[t].log, entry)]
  /\ nfail' = nfail + 1
  /\ UNCHANGED <<keys, current_index, now, ncalls, nticks>>
  /\ UNCHANGED jobVars
  /\ UNCHANGED auxVars
  /\ UNCHANGED extVars

\* except Exception as error: the operation raises
OperationRaises(t) ==
  /\ th[t].pc = "op"
  /\ nfail < MaxFailures
  /\ \E error \in Errors :
       LET entry == [client |-> th[t].client, error |-> error, at |-> now,
                     healthy |-> HealthySet(keys)]
       IN  IF is_rotatable_error(error)
             THEN th' = [th EXCEPT ![t].pc = "rotate", ![t].last_error = error,
                                   ![t].log = Append(th[t].log, entry)]
             ELSE th' = [th EXCEPT ![t].pc = "raised", ![t].last_error = error,
                                   ![t].raised = error,
                                   ![t].log = Append(th[t].log, entry)]
  /\ nfail' = nfail + 1
  /\ UNCHANGED <<keys, current_index, now, ncalls, nticks>>
  /\ UNCHANGED jobVars
  /\ UNCHANGED auxVars
  /\ UNCHANGED extVars

\* rotated = self.rotate_on_error(error); continue or raise
RotateOnError(t) ==
  /\ th[t].pc = "rotate"
  /\ LET r == rotate_on_error(keys, current_index, th[t].last_error, now)
     IN  /\ keys' = r.keys
         /\ current_index' = r.current_index
         /\ IF r.rotated
              THEN th' = [th EXCEPT ![t].pc = "loop", ![t].attempt = th[t].attempt + 1]
              ELSE th' = [th EXCEPT ![t].pc = "raised", ![t].raised = th[t].last_error]
  /\ UNCHANGED <<now, ncalls, nfail, nticks>>
  /\ UNCHANGED jobVars
  /\ UNCHANGED auxVars
  /\ UNCHANGED extVars

\* The for loop is over: raise last_error or RuntimeError(...)
Exhausted(t) ==
  /\ th[t].pc = "loop"
  /\ th[t].attempt >= th[t].max_retries
  /\ th' = [th EXCEPT ![t].pc = "raised",
                      ![t].raised = IF th[t].last_error # None
                                      THEN th[t].last_error ELSE AllKeysExhausted]
  /\ UNCHANGED <<keys, current_index, now, ncalls, nfail, nticks>>
  /\ UNCHANGED jobVars
  /\ UNCHANGED auxVars
  /\ UNCHANGED extVars

\* The caller has taken the result or the exception
Done(t) ==
  /\ th[t].pc \in {"returned", "raised"}
  /\ th' = [th EXCEPT ![t] = IdleFrame]
  /\ UNCHANGED <<keys, current_index, now, ncalls, nfail, nticks>>
  /\ UNCHANGED jobVars
  /\ UNCHANGED auxVars
  /\ UNCHANGED extVars

\* get_key_status, called by the health endpoint
GetKeyStatus ==
  /\ keys' = get_key_status(keys, now).keys
  /\ UNCHANGED <<current_index, now, th, ncalls, nfail, nticks>>
  /\ UNCHANGED jobVars
  /\ UNCHANGED auxVars
  /\ UNCHANGED extVars

TickSteps == {1, RATE_LIMIT_COOLDOWN, INVALID_KEY_COOLDOWN + 1}

\* Wall time passes
Tick ==
  /\ nticks < MaxTicks
  /\ \E d \in TickSteps : now' = now + d
  /\ nticks' = nticks + 1
  /\ UNCHANGED <<keys, current_index, th, ncalls, nfail>>
  /\ UNCHANGED jobVars
  /\ UNCHANGED auxVars
  /\ UNCHANGED extVars

ThreadStep(t) ==
  \/ Call(t)
  \/ Attempt(t)
  \/ OperationReturns(t)
  \/ OperationRaises(t)
  \/ RotateOnError(t)
  \/ Exhausted(t)
  \/ Done(t)

Next ==
  \/ \E t \in Threads : ThreadStep(t)
  \/ GetKeyStatus
  \/ Tick

Spec == Init /\ [][Next]_vars

\* One caller at a time
NextSeq ==
  \/ ThreadStep("t1")
  \/ GetKeyStatus
  \/ Tick

SpecSeq == Init /\ [][NextSeq]_vars

\* ------------------------------------------------ the pool called directly
\* The methods of the pool called one at a time, each under the lock: by
\* get_gemini_client, by the health endpoint, and by the executor on behalf
\* of callers whose operations fail at any later time.
RotatableErrors == {x \in Errors : is_rotatable_error(x)}

\* is_rotatable_error(error) on a message
OpIsRotatableError ==
  /\ \E e \in Messages :
       ret' = [NoCall EXCEPT !.op = "is_rotatable_error", !.error = e,
                             !.result = is_rotatable_error(e)]
  /\ UNCHANGED <<keys, current_index, now, th, ncalls, nfail, nticks, lock>>
  /\ UNCHANGED jobVars
  /\ UNCHANGED extVars

\* get_current_client()
OpGetCurrentClient ==
  /\ LET g == get_current_client(keys, current_index, now)
     IN  /\ keys' = g.keys
         /\ current_index' = g.current_index
         /\ ret' = [NoCall EXCEPT !.op = "get_current_client",
                                  !.start_index = current_index,
                                  !.client = g.client]
  /\ UNCHANGED <<now, th, ncalls, nfail, nticks, lock>>
  /\ UNCHANGED jobVars
  /\ UNCHANGED extVars

\* rotate_on_error(error) with an error the executor passes to it
OpRotateOnError ==
  /\ nfail < MaxPoolFailures
  /\ \E e \in RotatableErrors :
       LET r == rotate_on_error(keys, current_index, e, now)
       IN  /\ keys' = r.keys
           /\ current_index' = r.current_index
           /\ ret' = [NoCall EXCEPT !.op = "rotate_on_error",
                                    !.start_index = current_index,
                                    !.result = r.rotated]
  /\ nfail' = nfail + 1
  /\ UNCHANGED <<now, th, ncalls, nticks, lock>>
  /\ UNCHANGED jobVars
  /\ UNCHANGED extVars

PoolTickSteps == {RATE_LIMIT_COOLDOWN, RATE_LIMIT_COOLDOWN + 1}

\* Wall time passes: up to the end of a rate-limit cooldown, or just past it
PoolTick ==
  /\ nticks < MaxPoolTicks
  /\ \E d \in PoolTickSteps : now' = now + d
  /\ nticks' = nticks + 1
  /\ UNCHANGED <<keys, current_index, th, ncalls, nfail, lock, ret>>
  /\ UNCHANGED jobVars
  /\ UNCHANGED extVars

\* rotate_on_error called for one of a few failures
LiveRotateOnError ==
  /\ nfail < MaxLiveFailures
  /\ OpRotateOnError

\* Wall time passes while a cooldown is pending: up to its end, or just
\* past it
LiveTick ==
  /\ \E j \in 1..Len(keys), d \in {0, 1} :
       /\ keys[j].cooldown_until # NoTime
       /\ now < keys[j].cooldown_until + d
       /\ now' = keys[j].cooldown_until + d
  /\ UNCHANGED <<keys, current_index, th, ncalls, nfail, nticks, lock, ret>>
  /\ UNCHANGED jobVars
  /\ UNCHANGED extVars

NextLive ==
  \/ OpGetCurrentClient
  \/ LiveRotateOnError
  \/ GetKeyStatus
  \/ LiveTick

\* The pool with time that goes on and a health endpoint that keeps being
\* polled: every pool method that reads a credential's health runs
\* _check_cooldowns first, under the lock
SpecLive ==
  /\ Init
  /\ [][NextLive]_vars
  /\ WF_vars(LiveTick)
  /\ WF_vars(GetKeyStatus)

NextPool ==
  \/ OpGetCurrentClient
  \/ OpRotateOnError
  \/ GetKeyStatus
  \/ PoolTick

SpecPool == Init /\ [][NextPool]_vars

\* The classification alone: it reads neither the pool nor the clock
NextClassify ==
  \/ OpIsRotatableError
  \/ PoolTick

SpecClassify == Init /\ [][NextClassify]_vars

\* ------------------------------------------------------- the pool's lock
\* execute_with_retry with the lock of get_current_client, rotate_on_error and
\* get_key_status made visible: `with self._lock:` waits for the lock, and the
\* body runs and gives the lock back before the method returns.
HealthEndpoint == "health"

\* who can hold the lock
Holders == Threads \cup {HealthEndpoint}

\* t is about to call a method that takes the lock
WantsLock(t) ==
  \/ th[t].pc = "loop" /\ th[t].attempt < th[t].max_retries
  \/ th[t].pc = "rotate"

\* with self._lock: entered by a caller of execute_with_retry
AcquireLock(t) ==
  /\ lock = None
  /\ WantsLock(t)
  /\ lock' = t
  /\ UNCHANGED <<keys, current_index, now, th, ncalls, nfail, nticks, ret>>
  /\ UNCHANGED jobVars
  /\ UNCHANGED extVars

\* get_current_client that returns without giving the lock back
LockedGetCurrentClient_keeps_lock(t) ==
  /\ lock = t
  /\ th[t].pc = "loop"
  /\ LET g == get_current_client(keys, current_index, now)
     IN  /\ keys' = g.keys
         /\ current_index' = g.current_index
         /\ IF g.client = NoClient
              THEN th' = [th EXCEPT ![t].pc = "raised", ![t].raised = NoHealthyKeys]
              ELSE th' = [th EXCEPT ![t].pc = "op", ![t].client = g.client]
  /\ UNCHANGED <<lock, now, ncalls, nfail, nticks, ret>>
  /\ UNCHANGED jobVars
  /\ UNCHANGED extVars

\* the body of get_current_client, and the end of its with block
LockedGetCurrentClient(t) ==
  /\ lock = t
  /\ th[t].pc = "loop"
  /\ LET g == get_current_client(keys, current_index, now)
     IN  /\ keys' = g.keys
         /\ current_index' = g.current_index
         /\ IF g.client = NoClient
              THEN th' = [th EXCEPT ![t].pc = "raised", ![t].raised = NoHealthyKeys]
              ELSE th' = [th EXCEPT ![t].pc = "op", ![t].client = g.client]
  /\ lock' = None
  /\ UNCHANGED <<now, ncalls, nfail, nticks, ret>>
  /\ UNCHANGED jobVars
  /\ UNCHANGED extVars

\* the body of rotate_on_error, and the end of its with block
LockedRotateOnError(t) ==
  /\ lock = t
  /\ th[t].pc = "rotate"
  /\ LET r == rotate_on_error(keys, current_index, th[t].last_error, now)
     IN  /\ keys' = r.keys
         /\ current_index' = r.current_index
         /\ IF r.rotated
              THEN th' = [th EXCEPT ![t].pc = "loop", ![t].attempt = th[t].attempt + 1]
              ELSE th' = [th EXCEPT ![t].pc = "raised", ![t].raised = th[t].last_error]
  /\ lock' = None
  /\ UNCHANGED <<now, ncalls, nfail, nticks, ret>>
  /\ UNCHANGED jobVars
  /\ UNCHANGED extVars

\* with self._lock: entered by get_key_status
AcquireLockForStatus ==
  /\ lock = None
  /\ lock' = HealthEndpoint
  /\ UNCHANGED <<keys, current_index, now, th, ncalls, nfail, nticks, ret>>
  /\ UNCHANGED jobVars
  /\ UNCHANGED extVars

\* the body of get_key_status, and the end of its with block
LockedGetKeyStatus ==
  /\ lock = HealthEndpoint
  /\ keys' = get_key_status(keys, now).keys
  /\ lock' = None
  /\ UNCHANGED <<current_index, now, th, ncalls, nfail, nticks, ret>>
  /\ UNCHANGED jobVars
  /\ UNCHANGED extVars

LockThreadStep(t) ==
  \/ Call(t)
  \/ AcquireLock(t)
  \/ LockedGetCurrentClient(t)
  \/ OperationReturns(t)
  \/ OperationRaises(t)
  \/ LockedRotateOnError(t)
  \/ Exhausted(t)
  \/ Done(t)

NextLock ==
  \/ \E t \in Threads : LockThreadStep(t)
  \/ AcquireLockForStatus
  \/ LockedGetKeyStatus

SpecLock == Init /\ [][NextLock]_vars

\* ------------------------------------------------------- the job pipeline
ProcessorMissing == "Video processor not initialized. Check GEMINI_API_KEY in .env file"
InvalidVideo == "Invalid video ID"
DownloadFailed == "Download failed"
FileNotFound == "Video file not found"
TranscriptionFailed == "Transcription failed"
ParseFailed == "Gemini analysis failed: invalid JSON"
UploadFailed == "Upload failed"
PathIsNone == "expected str, bytes or os.PathLike object, not NoneType"

\* f"Gemini analysis failed: {str(e)}"
analysis_failed(e) ==
  CASE e = "429 rate limit" -> "Gemini analysis failed: 429 rate limit"
    [] e = "500 internal error" -> "Gemini analysis failed: 500 internal error"

\* the except block with progress put back to 0
FailJob_resets_progress(e) ==
  /\ job' = [job EXCEPT !.status = "failed", !.error = e, !.progress = 0]
  /\ jpc' = "done"

\* except Exception as e: the job record is marked failed
FailJob(e) ==
  /\ job' = [job EXCEPT !.status = "failed", !.error = e]
  /\ jpc' = "done"

\* update_progress(message, progress)
update_progress(progress) ==
  job' = [job EXCEPT !.progress = progress]

\* process_video_task entered again for a job whose run is over
TaskStart_rerun ==
  /\ jpc \in {"queued", "done"}
  /\ \E src \in Sources, n \in 1..MaxClips, st \in BOOLEAN :
       req' = [video_source |-> src, num_clips |-> n, storage_enabled |-> st]
  /\ job' = [job EXCEPT !.status = "processing", !.progress = 10]
  /\ jpc' = "processor"
  /\ rank_raised' = None
  /\ segments' = 0
  /\ clips' = <<>>
  /\ uploaded' = 0
  /\ UNCHANGED poolVars
  /\ UNCHANGED auxVars
  /\ UNCHANGED extVars

\* process_video_task is entered with a request: the job becomes processing
TaskStart ==
  /\ jpc = "queued"
  /\ \E src \in Sources, n \in 1..MaxClips, st \in BOOLEAN :
       req' = [video_source |-> src, num_clips |-> n, storage_enabled |-> st]
  /\ job' = [job EXCEPT !.status = "processing", !.progress = 10]
  /\ jpc' = "processor"
  /\ UNCHANGED <<rank_raised, segments, clips, uploaded>>
  /\ UNCHANGED poolVars
  /\ UNCHANGED auxVars
  /\ UNCHANGED extVars

\* process_video with the queue enabled: the request is dumped to a dict and
\* process_video_task_sync is enqueued with it
Enqueue ==
  /\ jpc = "queued"
  /\ \E src \in Sources, n \in 1..MaxClips, st \in BOOLEAN :
       /\ req' = [video_source |-> src, num_clips |-> n, storage_enabled |-> st]
       /\ payload' = model_dump(req')
  /\ jpc' = "enqueued"
  /\ UNCHANGED <<job, rank_raised, segments, clips, uploaded>>
  /\ UNCHANGED poolVars
  /\ UNCHANGED auxVars
  /\ UNCHANGED rankVars

\* process_video_task_sync in the worker: the request is rebuilt from the
\* dict and process_video_task is run with it; an exception of the rebuild
\* is logged and raised again
SyncTaskStart ==
  /\ jpc = "enqueued"
  /\ LET r == VideoProcessRequest(payload)
     IN  IF validate_source(r.video_source)
           THEN /\ req' = [video_source |-> r.video_source,
                           num_clips |-> r.num_clips,
                           storage_enabled |-> req.storage_enabled]
                /\ job' = [job EXCEPT !.status = "processing", !.progress = 10]
                /\ jpc' = "processor"
           ELSE /\ jpc' = "escaped"
                /\ UNCHANGED <<job, req>>
  /\ UNCHANGED <<rank_raised, segments, clips, uploaded>>
  /\ UNCHANGED poolVars
  /\ UNCHANGED auxVars
  /\ UNCHANGED extVars

\* process_video_task in a process whose store has no record of the job (the
\* in-memory jobs_db of a queue worker, or a row the query does not find):
\* the first access of the record raises (KeyError at jobs_db[job_id], or
\* AttributeError at job.progress / job.status on None), the except block
\* accesses the record again and raises in turn, and that exception leaves
\* process_video_task. Nothing is written to the job.
JobRecordMissing ==
  /\ jpc \in {"queued", "enqueued"}
  /\ jpc' = "escaped"
  /\ UNCHANGED <<job, req, rank_raised, segments, clips, uploaded>>
  /\ UNCHANGED poolVars
  /\ UNCHANGED auxVars
  /\ UNCHANGED extVars

\* if not video_processor: raise
ProcessorCheck ==
  /\ jpc = "processor"
  /\ \E configured \in BOOLEAN :
       IF configured
         THEN jpc' = "source" /\ UNCHANGED job
         ELSE FailJob(ProcessorMissing)
  /\ UNCHANGED <<req, rank_raised, segments, clips, uploaded>>
  /\ UNCHANGED poolVars
  /\ UNCHANGED auxVars
  /\ UNCHANGED extVars

\* video_source == "upload": look the video up
LookupUpload ==
  /\ jpc = "source"
  /\ req.video_source = "upload"
  /\ \E found \in BOOLEAN :
       IF found
         THEN jpc' = "exists" /\ UNCHANGED job
         ELSE FailJob(InvalidVideo)
  /\ UNCHANGED <<req, rank_raised, segments, clips, uploaded>>
  /\ UNCHANGED poolVars
  /\ UNCHANGED auxVars
  /\ UNCHANGED extVars

\* video_source in youtube, kick, url: progress 20 before the download
AnnounceDownload ==
  /\ jpc = "source"
  /\ req.video_source # "upload"
  /\ update_progress(20)
  /\ jpc' = "download"
  /\ UNCHANGED <<req, rank_raised, segments, clips, uploaded>>
  /\ UNCHANGED poolVars
  /\ UNCHANGED auxVars
  /\ UNCHANGED extVars

\* download_youtube_video / download_video_from_url
Download ==
  /\ jpc = "download"
  /\ \E ok \in BOOLEAN :
       IF ok
         THEN jpc' = "exists" /\ UNCHANGED job
         ELSE FailJob(DownloadFailed)
  /\ UNCHANGED <<req, rank_raised, segments, clips, uploaded>>
  /\ UNCHANGED poolVars
  /\ UNCHANGED auxVars
  /\ UNCHANGED extVars

\* if not video_path or not os.path.exists(video_path): raise
PathCheck ==
  /\ jpc = "exists"
  /\ \E exists \in BOOLEAN :
       IF exists
         THEN jpc' = "pipeline" /\ UNCHANGED job
         ELSE FailJob(FileNotFound)
  /\ UNCHANGED <<req, rank_raised, segments, clips, uploaded>>
  /\ UNCHANGED poolVars
  /\ UNCHANGED auxVars
  /\ UNCHANGED extVars

\* process_video_for_clips: progress_callback("Transcribing video...", 10)
CbTranscribing ==
  /\ jpc = "pipeline"
  /\ update_progress(10)
  /\ jpc' = "transcribe"
  /\ UNCHANGED <<req, rank_raised, segments, clips, uploaded>>
  /\ UNCHANGED poolVars
  /\ UNCHANGED auxVars
  /\ UNCHANGED extVars

\* transcribe_video, then progress_callback("Transcription complete", 40)
Transcribe ==
  /\ jpc = "transcribe"
  /\ \E ok \in BOOLEAN :
       IF ok
         THEN update_progress(40) /\ jpc' = "analyzing"
         ELSE FailJob(TranscriptionFailed)
  /\ UNCHANGED <<req, rank_raised, segments, clips, uploaded>>
  /\ UNCHANGED poolVars
  /\ UNCHANGED auxVars
  /\ UNCHANGED extVars

\* progress_callback("Analyzing with AI...", 45)
CbAnalyzing ==
  /\ jpc = "analyzing"
  /\ update_progress(45)
  /\ jpc' = "analyze"
  /\ UNCHANGED <<req, rank_raised, segments, clips, uploaded>>
  /\ UNCHANGED poolVars
  /\ UNCHANGED auxVars
  /\ UNCHANGED extVars

\* analyze_with_gemini: progress_callback("Starting AI analysis...") -> 50
AnalyzeStart ==
  /\ jpc = "analyze"
  /\ update_progress(50)
  /\ jpc' = "rank"
  /\ UNCHANGED <<req, rank_raised, segments, clips, uploaded>>
  /\ UNCHANGED poolVars
  /\ UNCHANGED auxVars
  /\ UNCHANGED extVars

\* self.model.generate_content(prompt, stream=True) and the chunk loop: the
\* model is called directly, once; whatever it raises ends the analysis
RankCall ==
  /\ jpc = "rank"
  /\ \/ /\ update_progress(50)
        /\ jpc' = "parse"
        /\ UNCHANGED rank_raised
     \/ \E e \in RankErrors :
          /\ rank_raised' = e
          /\ FailJob(analysis_failed(e))
  /\ UNCHANGED <<req, segments, clips, uploaded>>
  /\ UNCHANGED poolVars
  /\ UNCHANGED auxVars
  /\ UNCHANGED extVars

\* json.loads and validation of segments[:num_clips], then the ranking
Parse ==
  /\ jpc = "parse"
  /\ \/ /\ \E n \in 0..req.num_clips : segments' = n
        /\ jpc' = "ranked"
        /\ UNCHANGED job
     \/ /\ FailJob(ParseFailed)
        /\ UNCHANGED segments
  /\ UNCHANGED <<req, rank_raised, clips, uploaded>>
  /\ UNCHANGED poolVars
  /\ UNCHANGED auxVars
  /\ UNCHANGED extVars

\* progress_callback("AI analysis complete", 60)
CbAnalysisComplete ==
  /\ jpc = "ranked"
  /\ update_progress(60)
  /\ jpc' = "generating"
  /\ UNCHANGED <<req, rank_raised, segments, clips, uploaded>>
  /\ UNCHANGED poolVars
  /\ UNCHANGED auxVars
  /\ UNCHANGED extVars

\* progress_callback("Generating clips...", 65)
CbGenerating ==
  /\ jpc = "generating"
  /\ update_progress(65)
  /\ jpc' = "clip"
  /\ UNCHANGED <<req, rank_raised, segments, clips, uploaded>>
  /\ UNCHANGED poolVars
  /\ UNCHANGED auxVars
  /\ UNCHANGED extVars

\* head of the clip loop: progress_callback(f"Generating clip ...", clip_progress)
CbClip ==
  /\ jpc = "clip"
  /\ Len(clips) < segments
  /\ update_progress(clip_progress(Len(clips), segments))
  /\ jpc' = "extract"
  /\ UNCHANGED <<req, rank_raised, segments, clips, uploaded>>
  /\ UNCHANGED poolVars
  /\ UNCHANGED auxVars
  /\ UNCHANGED extVars

\* fast_clip_copy, generate_clip with the fallback to the preview, append
ExtractClip ==
  /\ jpc = "extract"
  /\ \E preview \in BOOLEAN, generated \in BOOLEAN :
       clips' = Append(clips,
                  [clip_number |-> Len(clips) + 1,
                   generated |-> generated,
                   path |-> IF generated THEN "output"
                            ELSE IF preview THEN "preview" ELSE None])
  /\ jpc' = "clip"
  /\ UNCHANGED <<job, req, rank_raised, segments, uploaded>>
  /\ UNCHANGED poolVars
  /\ UNCHANGED auxVars
  /\ UNCHANGED extVars

\* progress_callback("All clips generated successfully!", 100); success
CbAllDone ==
  /\ jpc = "clip"
  /\ Len(clips) = segments
  /\ update_progress(100)
  /\ jpc' = "upload"
  /\ UNCHANGED <<req, rank_raised, segments, clips, uploaded>>
  /\ UNCHANGED poolVars
  /\ UNCHANGED auxVars
  /\ UNCHANGED extVars

\* for clip_data in result["clips"]: upload to the storage when it is enabled
UploadClip ==
  /\ jpc = "upload"
  /\ uploaded < Len(clips)
  /\ IF req.storage_enabled
       THEN IF clips[uploaded + 1].path = None
              THEN FailJob(PathIsNone) /\ UNCHANGED uploaded
              ELSE \E ok \in BOOLEAN :
                     IF ok
                       THEN uploaded' = uploaded + 1 /\ UNCHANGED <<job, jpc>>
                       ELSE FailJob(UploadFailed) /\ UNCHANGED uploaded
       ELSE uploaded' = uploaded + 1 /\ UNCHANGED <<job, jpc>>
  /\ UNCHANGED <<req, rank_raised, segments, clips>>
  /\ UNCHANGED poolVars
  /\ UNCHANGED auxVars
  /\ UNCHANGED extVars

\* Finalize that fails the job when no clip was generated
Finalize_requires_clip ==
  /\ jpc = "upload"
  /\ uploaded = Len(clips)
  /\ IF \E j \in 1..Len(clips) : clips[j].generated
       THEN job' = [job EXCEPT !.status = "completed", !.progress = 100] /\ jpc' = "done"
       ELSE FailJob("No clips generated")
  /\ UNCHANGED <<req, rank_raised, segments, clips, uploaded>>
  /\ UNCHANGED poolVars
  /\ UNCHANGED auxVars
  /\ UNCHANGED extVars

\* the job record is marked completed
Finalize ==
  /\ jpc = "upload"
  /\ uploaded = Len(clips)
  /\ job' = [job EXCEPT !.status = "completed", !.progress = 100]
  /\ jpc' = "done"
  /\ UNCHANGED <<req, rank_raised, segments, clips, uploaded>>
  /\ UNCHANGED poolVars
  /\ UNCHANGED auxVars
  /\ UNCHANGED extVars

NextJob ==
  \/ TaskStart
  \/ Enqueue
  \/ SyncTaskStart
  \/ JobRecordMissing
  \/ ProcessorCheck
  \/ LookupUpload
  \/ AnnounceDownload
  \/ Download
  \/ PathCheck
  \/ CbTranscribing
  \/ Transcribe
  \/ CbAnalyzing
  \/ AnalyzeStart
  \/ RankCall
  \/ Parse
  \/ CbAnalysisComplete
  \/ CbGenerating
  \/ CbClip
  \/ ExtractClip
  \/ CbAllDone
  \/ UploadClip
  \/ Finalize

SpecJob == Init /\ [][NextJob]_vars

\* ------------------------------------------- ranking and clip extraction
\* One call of process_video_for_clips, from the ranking model's response
\* to the returned dict. Python floats are modelled as exact fractions
\* <<numerator, denominator>> in lowest terms (numerators are never negative
\* here).
RECURSIVE GCD(_, _)
GCD(a, b) == IF b = 0 THEN a ELSE GCD(b, a % b)

Q(n, d) == LET g == GCD(n, d) IN <<n \div g, d \div g>>

QInt(n) == <<n, 1>>

Zero == QInt(0)

One == QInt(1)

QAdd(a, b) == Q(a[1] * b[2] + b[1] * a[2], a[2] * b[2])

QSub(a, b) == Q(a[1] * b[2] - b[1] * a[2], a[2] * b[2])

QMul(a, b) == Q(a[1] * b[1], a[2] * b[2])

QDiv(a, b) == Q(a[1] * b[2], a[2] * b[1])

QLess(a, b) == a[1] * b[2] < b[1] * a[2]

Min(a, b) == IF a <= b THEN a ELSE b

\* the clip_duration values the request model accepts (the first two)
ClipDurations == {15, 30}

\* One object of the ranking model's JSON array: its start and end, whether
\* it has the key "text", and its virality_score
Candidate(s, e, v) ==
  [start |-> s, end |-> e, has_text |-> TRUE, virality_score |-> v]

\* The objects a response is made of: three proper candidates, one whose end
\* is before its start, one without "text"
ResponseItems ==
  {Candidate(0, 20, 8), Candidate(30, 40, 6), Candidate(30, 40, 8),
   Candidate(50, 30, 8),
   [start |-> 0, end |-> 20, has_text |-> FALSE, virality_score |-> 8]}

Responses == UNION {[1..n -> ResponseItems] : n \in 0..MaxCands}

\* {start, end, rms} windows of get_top_energy_windows, highest rms first;
\* the third is a silent second
WindowLists ==
  LET w1 == [start |-> 0, end |-> 1, rms |-> 4]
      w2 == [start |-> 1, end |-> 2, rms |-> 2]
      w3 == [start |-> 30, end |-> 31, rms |-> 0]
      w4 == [start |-> 31, end |-> 32, rms |-> 1]
  IN  {<<>>, <<w1>>, <<w1, w2>>, <<w3>>, <<w1, w4>>}

\* what detect_scenes returns when it works: one cut
SceneLists == {<<35>>}

\* what detect_audio_hype_events returns when it works: one event
HypeLists == {<<[start |-> 0, end |-> 1, score |-> 2]>>}

\* json.loads failed, or the response had no text
RankParseError == "Gemini analysis failed: Expecting value"

\* analyze_with_gemini after json.loads: the first num_clips objects, of
\* which those having start, end and text are kept and cleaned
validated_segments(c, n) ==
  LET head == SubSeq(c, 1, Min(n, Len(c)))
      ok(seg) == seg.has_text
      clean(seg) == [start |-> seg.start, end |-> seg.end,
                     virality_score |-> seg.virality_score,
                     energy_score |-> Zero, hype_score |-> Zero,
                     scene_proximity |-> 0, energy_norm |-> Zero,
                     combined_score |-> Zero]
      kept == SelectSeq(head, ok)
  IN  [i \in 1..Len(kept) |-> clean(kept[i])]

\* w['start'] < seg['end'] and w['end'] > seg['start']
Overlaps(w, seg) == w.start < seg.end /\ w.end > seg.start

RECURSIVE SumOf(_, _)
SumOf(s, f) == IF s = <<>> THEN 0 ELSE s[1][f] + SumOf(Tail(s), f)

\* average rms of the overlapping windows, 0.0 if none
energy_score(seg, windows) ==
  LET overlaps == SelectSeq(windows, LAMBDA w : Overlaps(w, seg))
  IN  IF overlaps # <<>>
        THEN Q(SumOf(overlaps, "rms"), Len(overlaps))
        ELSE Zero

\* average score of the overlapping hype events, 0.0 if none
hype_score(seg, events) ==
  LET hype_overlaps == SelectSeq(events, LAMBDA e : Overlaps(e, seg))
  IN  IF hype_overlaps # <<>>
        THEN Q(SumOf(hype_overlaps, "score"), Len(hype_overlaps))
        ELSE Zero

\* 1.0 if a cut lies within 2 s of the segment, else 0.0
scene_proximity(seg, stamps) ==
  IF \E i \in DOMAIN stamps :
       stamps[i] >= seg.start - 2 /\ stamps[i] <= seg.end + 2
    THEN 1
    ELSE 0

\* max() and min() of a non-empty list of fractions
QMax(s) == s[CHOOSE i \in DOMAIN s : \A j \in DOMAIN s : ~QLess(s[i], s[j])]

QMin(s) == s[CHOOSE i \in DOMAIN s : \A j \in DOMAIN s : ~QLess(s[j], s[i])]

\* a normalisation that divides by the maximum alone
energy_norm_by_max(segs) ==
  LET energy_values == [i \in DOMAIN segs |-> segs[i].energy_score]
  IN  IF energy_values # <<>> /\ QLess(Zero, QMax(energy_values))
        THEN [i \in DOMAIN segs |->
               [segs[i] EXCEPT !.energy_norm =
                  QAdd(One, QDiv(segs[i].energy_score, QMax(energy_values)))]]
        ELSE [i \in DOMAIN segs |-> [segs[i] EXCEPT !.energy_norm = Zero]]

\* Normalize energy_score to 0-1
energy_norm(segs) ==
  LET energy_values == [i \in DOMAIN segs |-> segs[i].energy_score]
  IN  IF energy_values # <<>> /\ QLess(Zero, QMax(energy_values))
        THEN LET max_e == QMax(energy_values)
                 min_e == QMin(energy_values)
             IN  [i \in DOMAIN segs |->
                   [segs[i] EXCEPT !.energy_norm =
                      IF QLess(min_e, max_e)
                        THEN QDiv(QSub(segs[i].energy_score, min_e),
                                  QSub(max_e, min_e))
                        ELSE Zero]]
        ELSE [i \in DOMAIN segs |-> [segs[i] EXCEPT !.energy_norm = Zero]]

\* a combination that leaves the energy out
combined_score_no_energy(s) ==
  QMul(QInt(s.virality_score),
       QAdd(QAdd(One, QMul(Q(1, 2), s.hype_score)),
            QMul(Q(3, 10), QInt(s.scene_proximity))))

\* vir * (1.0 + energy_norm + 0.5 * hype + 0.3 * scene_boost)
combined_score(s) ==
  QMul(QInt(s.virality_score),
       QAdd(QAdd(QAdd(One, s.energy_norm), QMul(Q(1, 2), s.hype_score)),
            QMul(Q(3, 10), QInt(s.scene_proximity))))

\* lines 636-682: the three scores, the normalisation and the combination
score_segments(segs, windows, events, stamps) ==
  LET attached == [i \in DOMAIN segs |->
                     [segs[i] EXCEPT
                        !.energy_score = energy_score(segs[i], windows),
                        !.hype_score = hype_score(segs[i], events),
                        !.scene_proximity = scene_proximity(segs[i], stamps)]]
      normed == energy_norm(attached)
  IN  [i \in DOMAIN normed |->
        [normed[i] EXCEPT !.combined_score = combined_score(normed[i])]]

\* x put into a list sorted by combined_score, highest first, behind every
\* element that is not lower
InsertDesc(x, t) ==
  LET p == Cardinality({i \in DOMAIN t :
                          ~QLess(t[i].combined_score, x.combined_score)})
  IN  SubSeq(t, 1, p) \o <<x>> \o SubSeq(t, p + 1, Len(t))

\* sorted(segments, key=combined_score, reverse=True): stable
RECURSIVE sorted_desc(_)
sorted_desc(s) ==
  IF s = <<>>
    THEN <<>>
    ELSE InsertDesc(s[Len(s)], sorted_desc(SubSeq(s, 1, Len(s) - 1)))

\* process_video_for_clips is called
PipelineStart ==
  /\ rpc = "idle"
  /\ \E n \in 1..MaxRankClips, d \in ClipDurations :
       /\ num_clips' = n
       /\ clip_duration' = d
  /\ rpc' = "analyze"
  /\ UNCHANGED <<content, seg_list, energy_windows, scene_timestamps,
                 audio_hype_events, det, generated_clips, result>>
  /\ UNCHANGED <<poolVars, jobVars, auxVars, payload>>

\* analyze_with_gemini returns the validated segments, or raises and
\* process_video_for_clips returns the failure
AnalyzeWithGemini ==
  /\ rpc = "analyze"
  /\ \/ \E c \in Responses :
          /\ content' = c
          /\ seg_list' = validated_segments(c, num_clips)
          /\ rpc' = "energy"
          /\ UNCHANGED result
     \/ /\ result' = [success |-> FALSE, total_clips |-> -1,
                      error |-> RankParseError]
        /\ rpc' = "returned"
        /\ UNCHANGED <<content, seg_list>>
  /\ UNCHANGED <<num_clips, clip_duration, energy_windows, scene_timestamps,
                 audio_hype_events, det, generated_clips>>
  /\ UNCHANGED <<poolVars, jobVars, auxVars, payload>>

\* energy_windows = [] unless ffmpeg_helpers is there and does not raise
DetectEnergy ==
  /\ rpc = "energy"
  /\ \/ \E o \in {"absent", "raises"} :
          /\ det' = [det EXCEPT !.energy = o]
          /\ energy_windows' = <<>>
     \/ \E w \in WindowLists :
          /\ det' = [det EXCEPT !.energy = "ok"]
          /\ energy_windows' = w
  /\ rpc' = "scenes"
  /\ UNCHANGED <<num_clips, clip_duration, content, seg_list,
                 scene_timestamps, audio_hype_events, generated_clips, result>>
  /\ UNCHANGED <<poolVars, jobVars, auxVars, payload>>

\* a scene detection whose exception ends the pipeline
DetectScenes_fatal ==
  /\ rpc = "scenes"
  /\ \/ /\ det' = [det EXCEPT !.scenes = "absent"]
        /\ scene_timestamps' = <<>>
        /\ rpc' = "hype"
        /\ UNCHANGED result
     \/ /\ det' = [det EXCEPT !.scenes = "raises"]
        /\ scene_timestamps' = <<>>
        /\ rpc' = "returned"
        /\ result' = [success |-> FALSE, total_clips |-> -1,
                      error |-> "scene detection failed"]
     \/ \E t \in SceneLists :
          /\ det' = [det EXCEPT !.scenes = "ok"]
          /\ scene_timestamps' = t
          /\ rpc' = "hype"
          /\ UNCHANGED result
  /\ UNCHANGED <<num_clips, clip_duration, content, seg_list,
                 energy_windows, audio_hype_events, generated_clips>>
  /\ UNCHANGED <<poolVars, jobVars, auxVars, payload>>

\* scene_timestamps = [] unless scene_detection is there and does not raise
DetectScenes ==
  /\ rpc = "scenes"
  /\ \/ \E o \in {"absent", "raises"} :
          /\ det' = [det EXCEPT !.scenes = o]
          /\ scene_timestamps' = <<>>
     \/ \E t \in SceneLists :
          /\ det' = [det EXCEPT !.scenes = "ok"]
          /\ scene_timestamps' = t
  /\ rpc' = "hype"
  /\ UNCHANGED <<num_clips, clip_duration, content, seg_list,
                 energy_windows, audio_hype_events, generated_clips, result>>
  /\ UNCHANGED <<poolVars, jobVars, auxVars, payload>>

\* audio_hype_events = [] unless emotion_detector is there and does not raise
DetectHype ==
  /\ rpc = "hype"
  /\ \/ \E o \in {"absent", "raises"} :
          /\ det' = [det EXCEPT !.hype = o]
          /\ audio_hype_events' = <<>>
     \/ \E e \in HypeLists :
          /\ det' = [det EXCEPT !.hype = "ok"]
          /\ audio_hype_events' = e
  /\ rpc' = "score"
  /\ UNCHANGED <<num_clips, clip_duration, content, seg_list,
                 energy_windows, scene_timestamps, generated_clips, result>>
  /\ UNCHANGED <<poolVars, jobVars, auxVars, payload>>

\* the scores are attached to every segment
ScoreSegments ==
  /\ rpc = "score"
  /\ seg_list' = score_segments(seg_list, energy_windows, audio_hype_events,
                                scene_timestamps)
  /\ rpc' = "rank"
  /\ UNCHANGED <<num_clips, clip_duration, content, energy_windows,
                 scene_timestamps, audio_hype_events, det, generated_clips,
                 result>>
  /\ UNCHANGED <<poolVars, jobVars, auxVars, payload>>

\* segments = sorted(...)[:num_clips]
RankSegments ==
  /\ rpc = "rank"
  /\ seg_list' = LET t == sorted_desc(seg_list)
                 IN  SubSeq(t, 1, Min(num_clips, Len(t)))
  /\ rpc' = "clips"
  /\ UNCHANGED <<num_clips, clip_duration, content, energy_windows,
                 scene_timestamps, audio_hype_events, det, generated_clips,
                 result>>
  /\ UNCHANGED <<poolVars, jobVars, auxVars, payload>>

\* the record appended for segment i (0-based) with the path the clip got
clip_record(i, segment, path, d) ==
  LET start == segment.start
      end == Min(segment.end, start + d)
  IN  [clip_number |-> i + 1, path |-> path,
       start_time |-> start, end_time |-> end,
       virality_score |-> segment.virality_score,
       duration |-> end - start]

\* One turn of the loop over the segments: the clip is generate_clip's
\* output, or the preview when generate_clip raises, or None when the
\* preview failed as well; the record is appended in every case
GenerateClip ==
  /\ rpc = "clips"
  /\ Len(generated_clips) < Len(seg_list)
  /\ \E path \in {"output", "preview", None} :
       LET i == Len(generated_clips)
       IN  generated_clips' =
             Append(generated_clips,
                    clip_record(i, seg_list[i + 1], path, clip_duration))
  /\ UNCHANGED <<rpc, num_clips, clip_duration, content, seg_list,
                 energy_windows, scene_timestamps, audio_hype_events, det,
                 result>>
  /\ UNCHANGED <<poolVars, jobVars, auxVars, payload>>

\* a return that reports the number of clips asked for
ReturnResult_total_requested ==
  /\ rpc = "clips"
  /\ Len(generated_clips) = Len(seg_list)
  /\ result' = [success |-> TRUE, total_clips |-> num_clips, error |-> None]
  /\ rpc' = "returned"
  /\ UNCHANGED <<num_clips, clip_duration, content, seg_list, energy_windows,
                 scene_timestamps, audio_hype_events, det, generated_clips>>
  /\ UNCHANGED <<poolVars, jobVars, auxVars, payload>>

\* the loop is over: the dict with success True is returned
ReturnResult ==
  /\ rpc = "clips"
  /\ Len(generated_clips) = Len(seg_list)
  /\ result' = [success |-> TRUE, total_clips |-> Len(generated_clips),
                error |-> None]
  /\ rpc' = "returned"
  /\ UNCHANGED <<num_clips, clip_duration, content, seg_list, energy_windows,
                 scene_timestamps, audio_hype_events, det, generated_clips>>
  /\ UNCHANGED <<poolVars, jobVars, auxVars, payload>>

NextRank ==
  \/ PipelineStart
  \/ AnalyzeWithGemini
  \/ DetectEnergy
  \/ DetectScenes
  \/ DetectHype
  \/ ScoreSegments
  \/ RankSegments
  \/ GenerateClip
  \/ ReturnResult

\* The processor is built from the single GEMINI_API_KEY and never touches
\* the credential pool: the runs start with the pool of a process that has
\* no GEMINI_API_KEYS.
InitRank == Init /\ keys = <<>>

SpecRank == InitRank /\ [][NextRank]_vars

TypeOK ==
  /\ now >= 0
  /\ \A t \in Threads : th[t].pc \in {"idle", "loop", "op", "rotate", "returned", "raised"}

\* ===================================================================
\* Properties of the credential pool and the retry executor
\* ===================================================================
Last(s) == s[Len(s)]

\* thread t takes a step of its execute_with_retry call
Steps(t) == th'[t] # th[t]

\* The fields of the credentials that a penalty touches
Penalties(ks) ==
  [j \in 1..Len(ks) |->
     <<ks[j].is_healthy, ks[j].cooldown_until, ks[j].last_error, ks[j].error_count>>]

\* The call of t has seen exactly one failure: "429 rate limit" on credential 1
\* of a pool of 3 healthy credentials, and may make at least one more attempt
C1_Scenario(t) ==
  /\ NumKeys = 3
  /\ th[t].max_retries >= 2
  /\ Len(th[t].log) = 1
  /\ th[t].log[1].client = 0
  /\ th[t].log[1].error = "429 rate limit"
  /\ th[t].log[1].healthy = {0, 1, 2}

\* C1: with 3 healthy credentials and a "429 rate limit" failure on credential
\* 1, the call does not raise: the next invocation uses credential 2 and its
\* result is returned; get_key_status, asked less than RATE_LIMIT_COOLDOWN
\* seconds after the failure, reports credential 1 unhealthy with
\* 0 < cooldown_remaining <= 60.
C1_FailoverToSecondCredential ==
  \A t \in Threads :
    C1_Scenario(t) =>
      /\ th[t].pc # "raised"
      /\ th[t].pc = "op" => th[t].client = 1
      /\ th[t].pc = "returned" => th[t].result = 1
      /\ (th[t].pc = "returned" /\ now < th[t].log[1].at + RATE_LIMIT_COOLDOWN) =>
           LET s == get_key_status(keys, now).status[1]
           IN  /\ s.index = 1
               /\ ~s.is_healthy
               /\ 0 < s.cooldown_remaining
               /\ s.cooldown_remaining <= 60

C1_Witness ==
  \E t \in Threads :
    /\ C1_Scenario(t)
    /\ th[t].pc = "returned"
    /\ now > th[t].log[1].at
    /\ now < th[t].log[1].at + RATE_LIMIT_COOLDOWN
\* C5: when the operation raises an error that is_rotatable_error rejects,
\* the call re-raises that error at once: the operation has been invoked once
\* more and is not invoked again (exactly once when it was the first attempt),
\* and no credential's health, cooldown_until, error_count nor the current
\* index is changed by the failure.
C5_NonRotatableRaisedAtOnce ==
  [][\A t \in Threads :
       /\ (/\ th[t].pc = "op"
           /\ Len(th'[t].log) > Len(th[t].log)
           /\ ~is_rotatable_error(Last(th'[t].log).error))
          => /\ th'[t].pc = "raised"
             /\ th'[t].raised = Last(th'[t].log).error
             /\ Len(th'[t].log) = th[t].attempt + 1
             /\ th[t].attempt = 0 => Len(th'[t].log) = 1
             /\ Penalties(keys') = Penalties(keys)
             /\ current_index' = current_index
       /\ (th[t].pc = "raised" /\ Steps(t)) => th'[t].pc = "idle"
    ]_vars

C5_Witness ==
  \E t \in Threads :
    /\ th[t].pc = "raised"
    /\ th[t].log # <<>>
    /\ ~is_rotatable_error(Last(th[t].log).error)
    /\ th[t].raised = Last(th[t].log).error
    /\ Len(th[t].log) = 1
    /\ NumKeys >= 2
    /\ HealthySet(keys) = 0..(NumKeys - 1)

\* Every failure of the call of t was rotatable and followed by a rotation
\* that succeeded
AllRotated(t) ==
  /\ th[t].attempt = Len(th[t].log)
  /\ \A j \in 1..Len(th[t].log) : is_rotatable_error(th[t].log[j].error)

\* C6: the operation is invoked at most max_retries times; when all
\* max_retries attempts failed with a rotatable error and every rotation
\* succeeded, the call raises the error of the last attempt and returns nothing.
C6_BoundedAttempts ==
  \A t \in Threads :
    /\ Len(th[t].log) <= th[t].max_retries
    /\ th[t].pc \in {"op", "rotate"} => th[t].attempt < th[t].max_retries
    /\ th[t].pc = "op" => Len(th[t].log) < th[t].max_retries
    /\ (AllRotated(t) /\ Len(th[t].log) = th[t].max_retries /\ th[t].max_retries >= 1)
         => /\ th[t].pc \in {"loop", "raised"}
            /\ th[t].result = NoClient
            /\ th[t].pc = "raised" => th[t].raised = Last(th[t].log).error

C6_Witness ==
  \E t \in Threads :
    /\ AllRotated(t)
    /\ th[t].max_retries = 2
    /\ Len(th[t].log) = 2
    /\ th[t].pc = "raised"
    /\ th[t].raised = Last(th[t].log).error

\* C7: an attempt that finds no healthy credential raises
\* "No healthy Gemini API keys available" without invoking the operation, and
\* a rotatable failure whose rotation finds no healthy credential raises the
\* operation's error without another attempt.
C7_NoHealthyCredential ==
  [][\A t \in Threads :
       /\ (/\ th[t].pc = "loop"
           /\ th[t].attempt < th[t].max_retries
           /\ Steps(t)
           /\ HealthySet(keys') = {})
          => /\ th'[t].pc = "raised"
             /\ th'[t].raised = NoHealthyKeys
             /\ th'[t].log = th[t].log
       /\ (/\ th[t].pc = "rotate"
           /\ Steps(t)
           /\ HealthySet(keys') = {})
          => /\ th'[t].pc = "raised"
             /\ th'[t].raised = Last(th[t].log).error
             /\ th'[t].log = th[t].log
    ]_vars

C7_Witness ==
  \E t \in Threads :
    /\ th[t].pc = "raised"
    /\ th[t].raised = NoHealthyKeys
    /\ th[t].log = <<>>
    /\ NumKeys >= 2
    /\ HealthySet(keys) = {}

\* C8: a rotate_on_error call that reports the failure of a credential which an
\* earlier call has already put in cooldown (no cooldown expiring) changes no
\* credential's health, cooldown_until, last_error or error_count.
C8_SecondReportChangesNothing ==
  [][\A t \in Threads :
       (/\ th[t].pc = "rotate"
        /\ Steps(t)
        /\ ~key(keys, th[t].client).is_healthy
        /\ check_cooldowns(keys, now) = keys)
       => Penalties(keys') = Penalties(keys)
    ]_vars

\* The message contains "401" or, in any letter case, "invalid"
InvalidClass(e) ==
  Contains(Str(e), Txt401) \/ Contains(Lower(Str(e)), TxtInvalid)

\* The message contains "quota" in any letter case
QuotaClass(e) == Contains(Lower(Str(e)), TxtQuota)

\* C9: an invalid-credential error ("401" or "invalid" in the message) raised
\* by the operation while another credential is healthy is handled as
\* rotatable: the credential that was used is out of service with an 86400
\* second cooldown and the call goes on to the next healthy credential
\* instead of raising.
C9_InvalidCredentialRotated ==
  \A t \in Threads :
    (/\ th[t].log # <<>>
     /\ th[t].pc # "rotate"
     /\ InvalidClass(Last(th[t].log).error)
     /\ Cardinality(Last(th[t].log).healthy) >= 2
     /\ Len(th[t].log) < th[t].max_retries
     /\ now = Last(th[t].log).at)
    => LET k == key(keys, Last(th[t].log).client)
       IN  /\ ~k.is_healthy
           /\ k.cooldown_until = Last(th[t].log).at + INVALID_KEY_COOLDOWN
           /\ th[t].pc # "raised"

\* The step of t is a rotate_on_error call that penalises the healthy
\* current credential
Penalises(t) ==
  /\ th[t].pc = "rotate"
  /\ Steps(t)
  /\ key(keys, current_index).is_healthy

\* C10 as stated: the cooldown is 600 whenever the message contains "quota"
\* and 86400 whenever it contains "401" or "invalid", 60 otherwise; error_count
\* rises by one and the message is recorded.
C10_CooldownByContent ==
  [][\A t \in Threads :
       Penalises(t) =>
         LET e == th[t].last_error
             k == key(keys', current_index)
         IN  /\ QuotaClass(e) => k.cooldown_until = now + 600
             /\ InvalidClass(e) => k.cooldown_until = now + 86400
             /\ (~QuotaClass(e) /\ ~InvalidClass(e)) => k.cooldown_until = now + 60
             /\ k.error_count = key(keys, current_index).error_count + 1
             /\ k.last_error = e
    ]_vars

\* C10 amended: "quota" takes precedence; 86400 applies when the message
\* contains "401" or "invalid" and not "quota".
C10_CooldownQuotaFirst ==
  [][\A t \in Threads :
       Penalises(t) =>
         LET e == th[t].last_error
             k == key(keys', current_index)
         IN  /\ QuotaClass(e) => k.cooldown_until = now + 600
             /\ (InvalidClass(e) /\ ~QuotaClass(e)) => k.cooldown_until = now + 86400
             /\ (~QuotaClass(e) /\ ~InvalidClass(e)) => k.cooldown_until = now + 60
             /\ ~k.is_healthy
             /\ k.error_count = key(keys, current_index).error_count + 1
             /\ k.last_error = e
    ]_vars

C10_Witness ==
  /\ NumKeys = 3
  /\ \E i, j \in Idx :
       /\ key(keys, i).last_error = "Quota check invalid"
       /\ key(keys, i).cooldown_until = now + 600
       /\ key(keys, j).last_error = "429 Invalid request"
       /\ key(keys, j).cooldown_until = now + 86400
       /\ key(keys, j).error_count = 1
\* The substrings as the claim words them
ClaimedPatterns ==
  { <<"4", "2", "9">>,
    <<"r", "e", "s", "o", "u", "r", "c", "e", " ", "e", "x", "h", "a", "u", "s", "t", "e", "d">>,
    <<"r", "a", "t", "e", " ", "l", "i", "m", "i", "t">>,
    <<"q", "u", "o", "t", "a">>,
    <<"t", "o", "o", " ", "m", "a", "n", "y", " ", "r", "e", "q", "u", "e", "s", "t", "s">> }

\* The lower-cased message contains one of the patterns
Matches(e, patterns) == \E p \in patterns : Contains(Lower(Str(e)), p)

\* C11 as stated: is_rotatable_error returns true exactly for the messages
\* that contain, in any letter case, "429", "resource exhausted", "rate limit",
\* "quota" or "too many requests".
C11_RotatableByWording ==
  ret.op = "is_rotatable_error" =>
    (ret.result <=> Matches(ret.error, ClaimedPatterns))

\* C11 amended: is_rotatable_error returns true exactly for the messages that
\* contain, in any letter case, "429", "resource_exhausted",
\* "rate_limit_exceeded", "quota", "rate limit" or "too many requests": the
\* first two patterns are spelt with underscores, so "Resource exhausted" is
\* not rotatable and "RESOURCE_EXHAUSTED" is.
C11_RotatableByPattern ==
  ret.op = "is_rotatable_error" =>
    (ret.result <=>
       Matches(ret.error,
               { <<"4", "2", "9">>,
                 <<"r", "e", "s", "o", "u", "r", "c", "e", "_", "e", "x", "h", "a", "u", "s", "t", "e", "d">>,
                 <<"r", "a", "t", "e", "_", "l", "i", "m", "i", "t", "_", "e", "x", "c", "e", "e", "d", "e", "d">>,
                 <<"q", "u", "o", "t", "a">>,
                 <<"r", "a", "t", "e", " ", "l", "i", "m", "i", "t">>,
                 <<"t", "o", "o", " ", "m", "a", "n", "y", " ", "r", "e", "q", "u", "e", "s", "t", "s">> }))

C11_Witness ==
  /\ ret.op = "is_rotatable_error"
  /\ ret.error = "RESOURCE_EXHAUSTED"
  /\ ret.result

\* The healthy credential met first from index cur + 1 on, going round
CyclicFirst(H, cur, n) ==
  (cur + (CHOOSE k \in 1..n :
            /\ (cur + k) % n \in H
            /\ \A m \in 1..(k - 1) : (cur + m) % n \notin H)) % n

\* The healthy credential with the lowest index
LowestIndex(H, cur, n) == CHOOSE i \in H : \A j \in H : i <= j

\* What a get_current_client step returns and does to the current index,
\* with Pick the choice it makes when the current credential is not healthy;
\* healthy is meant once the expired cooldowns have been cleared
GetCurrentClientPicks(Pick(_, _, _)) ==
  OpGetCurrentClient =>
    LET H == HealthySet(keys')
    IN  /\ (NumKeys > 0 /\ current_index \in H) =>
             /\ ret'.client = current_index
             /\ current_index' = current_index
        /\ (NumKeys > 0 /\ current_index \notin H /\ H # {}) =>
             /\ ret'.client = Pick(H, current_index, NumKeys)
             /\ current_index' = ret'.client
        /\ (H = {}) <=> (ret'.client = NoClient)
        /\ H = {} => current_index' = current_index

\* C12 as stated: get_current_client returns the current credential when it
\* is healthy; otherwise the first healthy credential met scanning forward
\* cyclically from the current index, which becomes the current index; it
\* returns none, leaving the index alone, exactly when none is healthy.
C12_CyclicScan == [][GetCurrentClientPicks(CyclicFirst)]_vars

\* C12 amended: when the current credential is not healthy the credential
\* chosen is the healthy one with the lowest index (the scan starts at the
\* head of the list, not at the current index).
C12_LowestIndexScan == [][GetCurrentClientPicks(LowestIndex)]_vars

C12_Witness ==
  /\ NumKeys = 3
  /\ ret.op = "get_current_client"
  /\ ret.start_index = 1
  /\ ret.client = 0
  /\ current_index = 0
  /\ HealthySet(keys) = {0, 2}
\* The step is a call of a pool method that takes the lock
PoolAccess == OpGetCurrentClient \/ OpRotateOnError \/ GetKeyStatus

\* C13: a pool access made at a time greater than a credential's
\* cooldown_until makes it healthy and resets cooldown_until to none, with no
\* other call needed; an access at a time not greater leaves it unhealthy;
\* and get_current_client never returns a credential whose cooldown_until is
\* set and not yet passed.
C13_CooldownExpiry ==
  [][/\ PoolAccess =>
          \A j \in 1..Len(keys) :
            keys[j].cooldown_until # NoTime =>
              IF now > keys[j].cooldown_until
                THEN keys'[j].is_healthy /\ keys'[j].cooldown_until = NoTime
                ELSE ~keys'[j].is_healthy /\ keys'[j].cooldown_until = keys[j].cooldown_until
     /\ (OpGetCurrentClient /\ ret'.client # NoClient) =>
          LET k == key(keys, ret'.client)
          IN  k.cooldown_until = NoTime \/ now > k.cooldown_until
    ]_vars

C13_Witness ==
  /\ ret.op = "get_current_client"
  /\ ret.client # NoClient
  /\ key(keys, ret.client).is_healthy
  /\ key(keys, ret.client).cooldown_until = NoTime
  /\ key(keys, ret.client).error_count = 1
  /\ now = RATE_LIMIT_COOLDOWN + 1
  /\ nticks = 1

\* C14: a rotation moves the current index forward cyclically by at most
\* len(pool) steps; when no credential is healthy it returns false and the
\* current index is what it was before the call; when it returns true the
\* current index is on a healthy credential, the first one met going round.
C14_RotationFrame ==
  [][(OpRotateOnError /\ NumKeys > 0) =>
       LET H == HealthySet(keys')
       IN  /\ H = {} => (~ret'.result /\ current_index' = current_index)
           /\ ret'.result =>
                /\ current_index' \in H
                /\ \E k \in 1..NumKeys :
                     /\ current_index' = (current_index + k) % NumKeys
                     /\ \A m \in 1..(k - 1) : (current_index + m) % NumKeys \notin H
    ]_vars

C14_Witness ==
  /\ NumKeys >= 2
  /\ ret.op = "rotate_on_error"
  /\ ~ret.result
  /\ HealthySet(keys) = {}
  /\ current_index = ret.start_index
  /\ current_index = NumKeys - 1

\* C15 as stated: when a rotation succeeds on a pool with at least one
\* credential that is healthy (marked so, or with its cooldown over), the
\* credential at the current index after the call is healthy and is not the
\* credential that was current before the call.
C15_RotationLandsElsewhere ==
  [][(/\ OpRotateOnError
      /\ HealthySet(check_cooldowns(keys, now)) # {}
      /\ ret'.result) =>
       /\ current_index' \in HealthySet(keys')
       /\ current_index' # current_index
    ]_vars

\* C15 amended: when a rotation succeeds the credential at the current index
\* after the call is healthy; it is not the credential that was current before
\* the call when some credential was marked healthy at the call; it is the
\* same credential only when none was marked healthy and the cooldown of the
\* current credential was over, which the rotation then clears.
C15_RotationLandsOnHealthy ==
  [][(OpRotateOnError /\ ret'.result) =>
       /\ current_index' \in HealthySet(keys')
       /\ HealthySet(keys) # {} => current_index' # current_index
       /\ current_index' = current_index =>
            /\ HealthySet(keys) = {}
            /\ key(keys, current_index).cooldown_until # NoTime
            /\ now > key(keys, current_index).cooldown_until
            /\ key(keys', current_index).cooldown_until = NoTime
    ]_vars

C15_Witness ==
  /\ NumKeys = 2
  /\ ret.op = "rotate_on_error"
  /\ ret.result
  /\ ret.start_index = 1
  /\ current_index = 1
  /\ HealthySet(keys) = {1}

\* C16: in a non-empty pool, after any sequence of get_current_client,
\* rotate_on_error, get_key_status and cooldown expiries,
\* 0 <= current index < number of credentials.
C16_IndexInRange ==
  NumKeys > 0 => (0 <= current_index /\ current_index < NumKeys)

C16_Witness ==
  /\ NumKeys = 3
  /\ current_index = 0
  /\ ret.op = "rotate_on_error"
  /\ ret.start_index = 2
  /\ nticks >= 1
  /\ \A i \in Idx : key(keys, i).error_count >= 1
\* C17: the health and cooldown of the credentials and the current index are
\* read and changed only by the holder of the lock, inside get_current_client,
\* rotate_on_error or get_key_status, which gives the lock back at its end;
\* and a caller does not hold the lock while its operation is executing.
C17_LockDiscipline ==
  [][/\ (keys' # keys \/ current_index' # current_index) =>
          (lock \in Holders /\ lock' = None)
     /\ \A t \in Threads :
          /\ (/\ th[t].pc = "loop"
              /\ \/ th'[t].pc = "op"
                 \/ th'[t].pc = "raised" /\ th'[t].raised = NoHealthyKeys)
             => lock = t
          /\ (th[t].pc = "rotate" /\ Steps(t)) => lock = t
          /\ th[t].pc = "op" => lock # t
          /\ th'[t].pc = "op" => lock' # t
    ]_vars

C17_Witness ==
  /\ th["t1"].pc = "op"
  /\ th["t2"].pc = "rotate"
  /\ lock = "t2"
  /\ th["t1"].client = th["t2"].client
\* ===================================================================
\* Properties of the job pipeline
\* ===================================================================

\* C2: with at least two healthy credentials, a single 429 raised by the
\* ranking-model call of a job does not make the job fail.
C2_RankingErrorRetried ==
  ~(/\ jpc = "done"
    /\ job.status = "failed"
    /\ rank_raised = "429 rate limit"
    /\ Cardinality(HealthySet(keys)) >= 2)

\* C3: as long as the job is not failed, every write to the job record leaves
\* progress at least as high as it was.
C3_ProgressNonDecreasing ==
  [][job'.status # "failed" => job'.progress >= job.progress]_vars

\* At least one segment was selected and generate_clip failed for each
AllExtractionsFailed ==
  /\ segments >= 1
  /\ Len(clips) = segments
  /\ \A j \in 1..Len(clips) : ~clips[j].generated

\* C4 as stated: when generate_clip fails for every selected segment the job
\* ends failed with a non-null error and progress is not reset to 0.
C4_AllFailedMeansFailed ==
  (jpc = "done" /\ AllExtractionsFailed)
    => /\ job.status = "failed"
       /\ job.error # None
       /\ job.progress # 0

\* C4 amended: when generate_clip fails for every selected segment, every
\* segment still yields a clip record whose path is the preview or none,
\* progress 100 is written, and the job ends completed with no error, or
\* failed with the error of an upload that raised; progress stays 100.
C4_AllFailedStillCompletes ==
  (jpc \in {"upload", "done"} /\ AllExtractionsFailed)
    => /\ job.progress = 100
       /\ \A j \in 1..Len(clips) :
            clips[j].clip_number = j /\ clips[j].path \in {"preview", None}
       /\ jpc = "done" =>
            \/ job.status = "completed" /\ job.error = None
            \/ /\ job.status = "failed"
               /\ req.storage_enabled
               /\ job.error \in {PathIsNone, UploadFailed}

C4_Witness ==
  /\ jpc = "done"
  /\ AllExtractionsFailed
  /\ segments >= 2
  /\ job.status = "completed"
  /\ \E j \in 1..Len(clips) : clips[j].path = None

\* C18: the status of a job changes only from queued to processing and from
\* processing to completed or failed; once it is completed or failed no later
\* write of the run changes it.
C18_StatusTransitions ==
  [][/\ job'.status # job.status =>
          <<job.status, job'.status>> \in
            {<<"queued", "processing">>, <<"processing", "completed">>,
             <<"processing", "failed">>}
     /\ job.status \in {"completed", "failed"} => job' = job
    ]_vars

C18_Witness ==
  /\ jpc = "done"
  /\ job.status = "completed"
  /\ req.storage_enabled
  /\ uploaded >= 2

\* The messages of the exceptions that can be raised at the stage jpc
StageErrors ==
  CASE jpc = "processor" -> {ProcessorMissing}
    [] jpc = "source" -> {InvalidVideo}
    [] jpc = "download" -> {DownloadFailed}
    [] jpc = "exists" -> {FileNotFound}
    [] jpc = "transcribe" -> {TranscriptionFailed}
    [] jpc = "rank" -> {"Gemini analysis failed: 429 rate limit",
                        "Gemini analysis failed: 500 internal error"}
    [] jpc = "parse" -> {ParseFailed}
    [] jpc = "upload" -> {PathIsNone, UploadFailed}
    [] OTHER -> {}

\* C19: when a stage of process_video_task raises (the processor check, the
\* acquisition of the media, the pipeline reporting success=False, the
\* uploads) and the job record is in the store, the job becomes failed, its
\* error is the message of the exception and its progress is what it was
\* just before.
C19_FailureKeepsProgress ==
  [][(jpc # "done" /\ jpc' = "done" /\ job'.status # "completed") =>
       /\ job.status = "processing"
       /\ job'.status = "failed"
       /\ job'.error \in StageErrors
       /\ jpc = "rank" =>
            /\ rank_raised' = "429 rate limit" =>
                 job'.error = "Gemini analysis failed: 429 rate limit"
            /\ rank_raised' = "500 internal error" =>
                 job'.error = "Gemini analysis failed: 500 internal error"
       /\ job'.progress = job.progress
    ]_vars

C19_Witness ==
  /\ jpc = "done"
  /\ job.status = "failed"
  /\ job.error = "Gemini analysis failed: 500 internal error"
  /\ job.progress = 50

\* C20: no exception leaves process_video_task: a run that is over has left
\* the job completed or failed, also when the store of the executing process
\* has no record of the job.
C20_NoExceptionEscapes ==
  /\ jpc # "escaped"
  /\ jpc = "done" => job.status \in {"completed", "failed"}
IsStableDesc(s, t) ==
  /\ Len(t) = Len(s)
  /\ \E pi \in [DOMAIN s -> DOMAIN s] :
       /\ \A i, j \in DOMAIN s : i # j => pi[i] # pi[j]
       /\ \A i \in DOMAIN s : t[i] = s[pi[i]]
       /\ \A i, j \in DOMAIN s :
            i < j => \/ QLess(t[j].combined_score, t[i].combined_score)
                     \/ /\ t[i].combined_score = t[j].combined_score
                        /\ pi[i] < pi[j]

\* what identifies a candidate: its span and its virality_score
Ident(c) == <<c.start, c.end, c.virality_score>>

\* how many entries of the list s are the candidate x
Count(s, x) == Cardinality({i \in DOMAIN s : Ident(s[i]) = x})

\* every valid candidate of the response, scored with the signals of the run
AllScored ==
  score_segments(validated_segments(content, Len(content)), energy_windows,
                 audio_hype_events, scene_timestamps)

\* a valid candidate of the response that the final list lacks scores
\* strictly higher than a candidate of the final list
BetterLeftOut(final) ==
  \E i \in DOMAIN AllScored, k \in DOMAIN final :
    /\ Count(AllScored, Ident(AllScored[i])) > Count(final, Ident(AllScored[i]))
    /\ QLess(final[k].combined_score, AllScored[i].combined_score)

\* C22 (as claimed): the final list is the scored candidates in stable
\* descending order of combined_score, cut to num_clips, and no valid
\* candidate of the parsed response that is left out scores strictly higher
\* than a candidate that is kept.
C22_BestCandidatesKept ==
  [][RankSegments =>
       /\ \E t \in [DOMAIN seg_list -> {seg_list[i] : i \in DOMAIN seg_list}] :
            /\ IsStableDesc(seg_list, t)
            /\ seg_list' = SubSeq(t, 1, Min(num_clips, Len(t)))
       /\ ~BetterLeftOut(seg_list')]_vars

\* the list analyze_with_gemini returned: the candidates of the run
Candidates == validated_segments(content, num_clips)

Failed(d) == det[d] \in {"absent", "raises"}

\* the scores have been attached to the segments
Scored == rpc \in {"rank", "clips"} \/ (rpc = "returned" /\ result.success)

\* C24: a detector that is absent or raises leaves its signal the empty
\* list, every segment then has 0 for the scores derived from that signal
\* (energy_score and energy_norm, scene_proximity, hype_score), and the run
\* goes on to clip extraction and returns success with one clip per segment.
C24_DetectorFailureIsZeroSignal ==
  /\ Failed("energy") =>
       /\ energy_windows = <<>>
       /\ Scored => \A i \in DOMAIN seg_list :
                      /\ seg_list[i].energy_score = Zero
                      /\ seg_list[i].energy_norm = Zero
  /\ Failed("scenes") =>
       /\ scene_timestamps = <<>>
       /\ Scored => \A i \in DOMAIN seg_list : seg_list[i].scene_proximity = 0
  /\ Failed("hype") =>
       /\ audio_hype_events = <<>>
       /\ Scored => \A i \in DOMAIN seg_list : seg_list[i].hype_score = Zero
  /\ (rpc = "returned" /\ \E d \in {"energy", "scenes", "hype"} : Failed(d)) =>
       /\ result.success
       /\ Len(generated_clips) = Len(seg_list)

\* a run in which all three detectors failed, one of them by being absent,
\* and which returned clips
C24_Witness ==
  /\ rpc = "returned"
  /\ det.energy = "raises"
  /\ det.scenes = "absent"
  /\ det.hype = "raises"
  /\ result.success
  /\ Len(generated_clips) >= 1
  /\ \A i \in DOMAIN seg_list :
       seg_list[i].combined_score = QInt(seg_list[i].virality_score)

\* the segment overlaps one of the energy windows of the run
OverlapsWindow(seg) ==
  \E k \in DOMAIN energy_windows : Overlaps(energy_windows[k], seg)

\* ten times the combined score, from the four attributes of the segment
TenfoldFormula(seg) ==
  QMul(QInt(seg.virality_score),
       QAdd(QAdd(QInt(10), QMul(QInt(10), seg.energy_norm)),
            QAdd(QMul(QInt(5), seg.hype_score), QInt(3 * seg.scene_proximity))))

\* every segment's combined_score is what the formula gives
FormulaHolds ==
  \A i \in DOMAIN seg_list :
    QMul(QInt(10), seg_list[i].combined_score) = TenfoldFormula(seg_list[i])

\* no hype event and no scene cut in this run
NoHypeNoScene == audio_hype_events = <<>> /\ scene_timestamps = <<>>

EnergyValues == [i \in DOMAIN seg_list |-> seg_list[i].energy_score]

\* C26: once the segments are scored, energy_norm of every segment is
\* (energy_score - min) / (max - min) over the segments of the run when max
\* and min differ, which lies between 0 and 1, and is 0 for every segment when
\* max equals min.
C26_EnergyNormMinMax ==
  (Scored /\ seg_list # <<>>) =>
    LET max_e == QMax(EnergyValues)
        min_e == QMin(EnergyValues)
    IN  \A i \in DOMAIN seg_list :
          LET x == seg_list[i] IN
          /\ ~QLess(x.energy_norm, Zero)
          /\ ~QLess(One, x.energy_norm)
          /\ max_e = min_e => x.energy_norm = Zero
          /\ max_e # min_e =>
               QMul(x.energy_norm, QSub(max_e, min_e)) = QSub(x.energy_score, min_e)

\* two segments with different energy scores: the lower is normalised to 0,
\* the higher to 1
C26_Witness ==
  /\ Scored
  /\ \E i, j \in DOMAIN seg_list :
       /\ QLess(Zero, seg_list[i].energy_score)
       /\ QLess(seg_list[i].energy_score, seg_list[j].energy_score)
       /\ seg_list[i].energy_norm = Zero
       /\ seg_list[j].energy_norm = One

\* C27 (as claimed): every clip record has end_time > start_time, its
\* duration is end_time - start_time and at most clip_duration, and its
\* clip_number is the 1-based position of its segment in the final list.
C27_ClipRecordsWellFormed ==
  \A i \in DOMAIN generated_clips :
    LET c == generated_clips[i] IN
    /\ c.end_time > c.start_time
    /\ c.duration = c.end_time - c.start_time
    /\ c.duration <= clip_duration
    /\ c.clip_number = i
    /\ c.start_time = seg_list[i].start

\* ===================================================================
\* Further properties of the pool and of the job
\* ===================================================================
\* some operation of some caller was invoked with credential i (0-based) and
\* raised a rotatable error
FailedWith(i) ==
  \E u \in Threads : \E k \in DOMAIN th[u].log :
    /\ th[u].log[k].client = i
    /\ is_rotatable_error(th[u].log[k].error)

\* C28 (as claimed): whatever the interleaving of the callers, a step that
\* puts a credential into cooldown (raising its error_count) is taken only
\* when an operation invoked with that very credential has raised a rotatable
\* error; in particular a caller reporting a failure does not penalise the
\* credential another caller has just rotated to.
C28_PenaltyOnlyForFailedCredential ==
  [][\A j \in 1..Len(keys) :
       keys'[j].error_count > keys[j].error_count => FailedWith(j - 1)]_vars

\* C29 (as claimed): once the run has ended, a job whose progress is 100 has
\* status completed.
C29_FullProgressMeansCompleted ==
  (jpc = "done" /\ job.progress = 100) => job.status = "completed"

\* credential j (1-based) exists and is unhealthy
Unhealthy(j) == j <= Len(keys) /\ ~keys[j].is_healthy

====
